---- MODULE Spec2Model ----
(***************************************************************************)
(* Model of the Barcelona trip planner (src/src/App.js): the itinerary     *)
(* store, the derived effective stop sequence, the route-segment effect,   *)
(* the place-search effect, file import and the share link.                *)
(*                                                                         *)
(* Encoding of JavaScript values:                                          *)
(*   - an ISO date string is the number of its calendar day; `undefined`   *)
(*     as a selected day (and as a plan key) is NoDay;                     *)
(*   - `null` as a hotel is NoHotel;                                       *)
(*   - a Plan object is a function whose domain is the set of its keys;    *)
(*   - a JSON document is a record with the set `has` of the fields it     *)
(*     carries; a field outside `has` reads as undefined;                  *)
(*   - React state updates made by one handler are applied together, then  *)
(*     the effects whose dependencies changed run, in source order, until  *)
(*     no effect sets state any more.                                      *)
(***************************************************************************)
EXTENDS Integers, Sequences, FiniteSets, TLC

VARIABLES
    tripName, startDate, endDate, selectedDay, plan,    \* itinerary
    routeMode, hotel, useHotelStart, useHotelEnd,
    query, results, loading, error, searchRuns,         \* search UI
    segments, routingError, routeRuns,                  \* routing results
    shareUrl, stored, alerted,                          \* share link, localStorage, alert()
    zone,                                               \* the browser's time zone
    lastOp                                              \* history: the handler or callback that ran last

itinVars   == <<tripName, startDate, endDate, selectedDay, plan,
                routeMode, hotel, useHotelStart, useHotelEnd>>
searchVars == <<query, results, loading, error, searchRuns>>
routeVars  == <<segments, routingError, routeRuns>>
vars == <<itinVars, searchVars, routeVars, shareUrl, stored, alerted, zone, lastOp>>

----------------------------------------------------------------------------
\* Bounds of the model

MaxStops == 2       \* stops in one day list
MaxRouteRuns == 2   \* route recomputations in flight at once (superseded ones included)
MaxSearchRuns == 2  \* searches in flight at once (superseded ones included)
MaxDate == 2        \* dates the user can pick are 1..MaxDate

----------------------------------------------------------------------------
\* Values

NoDay == -1
NoHotel == [id |-> "null", lat |-> 0, lon |-> 0]

\* Coordinates are counted in quarter turns (90 degrees), where the
\* trigonometry of haversine is exact.
PlaceA == [id |-> "a", lat |-> 1, lon |-> 1]
PlaceB == [id |-> "b", lat |-> 0, lon |-> 1]
PlaceC == [id |-> "c", lat |-> 1, lon |-> 1]   \* another place at PlaceA's coordinates

DefaultTripName == "Barcelona, September 2025"
DefaultStart == 1
DefaultEnd == DefaultStart + 1   \* the default window, scaled to two days
RouteModes == {"foot", "driving", "bike", "transit"}
ModesTried == {"foot", "transit"}   \* the modes the model switches between

RoutingDegraded == "Routing unavailable for some legs; showing straight lines."
SearchFailed == "Search failed. Try again or check your network."

Stop(place) == [place |-> place, start |-> "10:00", end |-> "11:00", notes |-> ""]

EmptyPlan == << >>
PlanGet(p, d) == IF d \in DOMAIN p THEN p[d] ELSE << >>
PlanPut(p, d, arr) == [k \in (DOMAIN p) \cup {d} |-> IF k = d THEN arr ELSE p[k]]

Includes(seq, x) == \E i \in 1..Len(seq) : seq[i] = x
First(seq) == IF Len(seq) = 0 THEN NoDay ELSE seq[1]

----------------------------------------------------------------------------
\* Dates.  Time is counted in hours since the epoch, in UTC.

HoursPerDay == 24

\* A zone is its UTC offset in hours and an optional daylight-saving change:
\* from the day after shiftDay on, local midnight is at offset + shift.
ZoneUTC    == [offset |-> 0,  shift |-> 0, shiftDay |-> NoDay]
ZoneEast   == [offset |-> 2,  shift |-> 0, shiftDay |-> NoDay]
ZoneWest   == [offset |-> -5, shift |-> 0, shiftDay |-> NoDay]
ZoneSpring == [offset |-> -5, shift |-> 1, shiftDay |-> 1]
Zones == {ZoneUTC, ZoneEast, ZoneWest, ZoneSpring}

OffsetAtMidnight(z, d) == z.offset + (IF z.shiftDay # NoDay /\ d > z.shiftDay THEN z.shift ELSE 0)

\* new Date(s + "T00:00:00"): local midnight of day s, as a UTC instant
parseDate(s) == s * HoursPerDay - OffsetAtMidnight(zone, s)
\* d.toISOString().slice(0,10): the UTC calendar day of the instant
formatDate(t) == t \div HoursPerDay

RECURSIVE daterangeLoop(_, _, _)
daterangeLoop(d, e, out) ==
    IF d <= e THEN daterangeLoop(d + HoursPerDay, e, Append(out, formatDate(d)))
    ELSE out
daterange(start, end) == daterangeLoop(parseDate(start), parseDate(end), << >>)

----------------------------------------------------------------------------
\* The itinerary as one value, and what is derived from it

Itin == [tripName |-> tripName, startDate |-> startDate, endDate |-> endDate,
         selectedDay |-> selectedDay, plan |-> plan, routeMode |-> routeMode,
         hotel |-> hotel, useHotelStart |-> useHotelStart, useHotelEnd |-> useHotelEnd]

days(s) == daterange(s.startDate, s.endDate)
dayStops(s) == PlanGet(s.plan, s.selectedDay)

\* faulty variant: the anchors are applied without testing that a hotel is set
effectiveStopsAnyHotel(s) ==
    LET arr0 == dayStops(s)
        arr1 == IF s.useHotelStart
                THEN <<[place |-> s.hotel, start |-> "08:00", end |-> "08:00", notes |-> ""]>> \o arr0
                ELSE arr0
        arr2 == IF s.useHotelEnd
                THEN arr1 \o <<[place |-> s.hotel, start |-> "22:00", end |-> "22:00", notes |-> ""]>>
                ELSE arr1
    IN arr2
effectiveStops(s) ==
    LET arr0 == dayStops(s)
        arr1 == IF s.hotel # NoHotel /\ s.useHotelStart
                THEN <<[place |-> s.hotel, start |-> "08:00", end |-> "08:00", notes |-> ""]>> \o arr0
                ELSE arr0
        arr2 == IF s.hotel # NoHotel /\ s.useHotelEnd
                THEN arr1 \o <<[place |-> s.hotel, start |-> "22:00", end |-> "22:00", notes |-> ""]>>
                ELSE arr1
    IN arr2

coords(s) == LET eff == effectiveStops(s)
             IN [i \in 1..Len(eff) |-> <<eff[i].place.lat, eff[i].place.lon>>]

\* Keep selectedDay valid when the date range changes
KeepSelectedDayValid(s) ==
    IF ~Includes(days(s), s.selectedDay)
    THEN [s EXCEPT !.selectedDay = First(days(s))]
    ELSE s

----------------------------------------------------------------------------
\* JSON documents (localStorage record, exported file, share payload)

ItinFields == {"tripName", "startDate", "endDate", "selectedDay", "plan",
               "routeMode", "hotel", "useHotelStart", "useHotelEnd"}

\* JSON.parse("null"), also what an empty localStorage reads as
NullDoc == [type |-> "null", num |-> 0, has |-> {},
            tripName |-> "", startDate |-> NoDay, endDate |-> NoDay, selectedDay |-> NoDay,
            plan |-> EmptyPlan, routeMode |-> "", hotel |-> NoHotel,
            useHotelStart |-> FALSE, useHotelEnd |-> FALSE]
\* a JSON number
NumberDoc(n) == [NullDoc EXCEPT !.type = "number", !.num = n]
\* JSON.stringify of an itinerary object: a property whose value is undefined is
\* left out, a null hotel is written as null
ToJSON(s) ==
    [type |-> "object", num |-> 0,
     has |-> IF s.selectedDay = NoDay THEN ItinFields \ {"selectedDay"} ELSE ItinFields,
     tripName |-> s.tripName, startDate |-> s.startDate, endDate |-> s.endDate,
     selectedDay |-> s.selectedDay, plan |-> s.plan, routeMode |-> s.routeMode,
     hotel |-> s.hotel, useHotelStart |-> s.useHotelStart, useHotelEnd |-> s.useHotelEnd]

\* JavaScript truthiness of a parsed document
Truthy(doc) == CASE doc.type = "object" -> TRUE
                 [] doc.type = "number" -> doc.num # 0
                 [] OTHER -> FALSE
\* doc.f is neither undefined nor null (what `??` tests); reading a property of
\* a number gives undefined
Given(doc, f) == /\ doc.type = "object"
                 /\ f \in doc.has
                 /\ (f = "hotel" => doc.hotel # NoHotel)

----------------------------------------------------------------------------
\* Route segments effect

\* twice sin(d/2)**2 and cos(q), for angles d and q in quarter turns
TwiceSinSqHalf(d) == CASE d % 4 = 0 -> 0 [] d % 4 = 2 -> 2 [] OTHER -> 1
Cos(q) == CASE q % 4 = 0 -> 1 [] q % 4 = 2 -> -1 [] OTHER -> 0
\* Math.atan2(Math.sqrt(y), Math.sqrt(x)) in eighths of a turn, y and x given
\* doubled, for x + y = 1
Atan2OfSqrt(y2, x2) == CASE y2 = 0 -> 0 [] x2 = 0 -> 2 [] OTHER -> 1
\* R * pi / 2 for R = 6371e3, to the metre: the length of a quarter turn
QuarterTurnMeters == 10007543

\* R * 2 * Math.atan2(Math.sqrt(1-a), Math.sqrt(a)), in metres
haversine(lat1, lon1, lat2, lon2) ==
    LET a2 == TwiceSinSqHalf(lat2 - lat1) + Cos(lat1) * Cos(lat2) * TwiceSinSqHalf(lon2 - lon1)
    IN QuarterTurnMeters * Atan2OfSqrt(2 - a2, a2)

\* what the providers report for a routed leg, and a vertex of its polyline
ProviderMeters == 1000
ProviderSeconds == 600
Via == <<0, 0>>

\* { line, meters, seconds } as fetchRoute returns it
RoutedSeg(mode, from, to) ==
    [kind |-> "routed", mode |-> mode, from |-> from, to |-> to,
     line |-> <<from, Via, to>>, meters |-> ProviderMeters, seconds |-> ProviderSeconds]
\* fallback straight line: depends on the two endpoints only; seconds is
\* m/1.25, kept to the whole second
FallbackSeg(from, to) ==
    LET m == haversine(from[1], from[2], to[1], to[2])
    IN [kind |-> "fallback", mode |-> "none", from |-> from, to |-> to,
        line |-> <<from, to>>, meters |-> m, seconds |-> (m * 4) \div 5]

RouteState == [segments |-> segments, routingError |-> routingError, routeRuns |-> routeRuns]

\* One invocation of the effect's async body: the routeMode and coords its
\* closure captured, the loop index, segs, and the cancelled flag its cleanup
\* sets.  `outcomes` is history: how each leg's fetch settled (TRUE: resolved);
\* `raised` is history: this invocation turned the empty routingError into the
\* warning.
NewRun(s) == [mode |-> s.routeMode, coords |-> coords(s), i |-> 1, segs |-> << >>,
              cancelled |-> FALSE, outcomes |-> << >>, raised |-> FALSE]

\* the effect's cleanup: return ()=>{ cancelled = true; }
Cancel(runs) == [k \in 1..Len(runs) |-> [runs[k] EXCEPT !.cancelled = TRUE]]

\* faulty variant: the coordinates are left out of the dependency list
RouteDepsNoCoords(s) == <<s.selectedDay, s.routeMode>>
\* the dependency list [selectedDay, JSON.stringify(coords), routeMode]; the
\* string of a coordinate list is equal exactly when the lists are
RouteDeps(s) == <<s.selectedDay, coords(s), s.routeMode>>

\* one run of the effect body up to its first await
RouteEffectRun(R, s) ==
    IF Len(coords(s)) < 2
    THEN [segments |-> << >>, routingError |-> "", routeRuns |-> Cancel(R.routeRuns)]
    ELSE [segments |-> R.segments, routingError |-> "",
          routeRuns |-> Append(Cancel(R.routeRuns), NewRun(s))]

RouteEffect(R, prev, s) == IF RouteDeps(prev) = RouteDeps(s) THEN R ELSE RouteEffectRun(R, s)

\* a leg's fetch resolved: segs.push(seg)
AfterSuccess(run) ==
    [run EXCEPT !.segs = Append(@, RoutedSeg(run.mode, run.coords[run.i], run.coords[run.i + 1])),
                !.i = @ + 1]
\* faulty variant: a failed leg pushes nothing
AfterFailureSkips(run) == [run EXCEPT !.i = @ + 1]
\* a leg's fetch threw: the fallback is pushed and the loop goes on
AfterFailure(run) ==
    [run EXCEPT !.segs = Append(@, FallbackSeg(run.coords[run.i], run.coords[run.i + 1])),
                !.i = @ + 1]
\* for (let i=0; i<coords.length-1; i++)
LoopDone(run) == run.i > Len(run.coords) - 1
\* if (cancelled) return;  after a successful await
ReturnsAfterAwait(run) == run.cancelled
\* faulty variant: the final write is not guarded
MayStoreUnguarded(run) == TRUE
\* if (!cancelled) setSegments(segs)
MayStore(run) == ~run.cancelled

RemoveAt(seq, k) == [j \in 1..(Len(seq) - 1) |-> IF j < k THEN seq[j] ELSE seq[j + 1]]
ReplaceAt(seq, k, x) == [seq EXCEPT ![k] = x]

\* The state after the handler set the itinerary to s0: every effect pass until
\* none sets state.  The first pass renders s0 as the handler left it; the
\* keep-valid effect may then set selectedDay, which renders once more.
Settle(R, prev, s0) ==
    LET R1 == RouteEffect(R, prev, s0)
        s1 == KeepSelectedDayValid(s0)
        R2 == RouteEffect(R1, s0, s1)
    IN [itin |-> s1, route |-> R2]

SetItin(s) ==
    /\ tripName' = s.tripName /\ startDate' = s.startDate /\ endDate' = s.endDate
    /\ selectedDay' = s.selectedDay /\ plan' = s.plan /\ routeMode' = s.routeMode
    /\ hotel' = s.hotel /\ useHotelStart' = s.useHotelStart /\ useHotelEnd' = s.useHotelEnd
    /\ stored' = ToJSON(s)      \* the persist effect

SetRoute(R) ==
    /\ Len(R.routeRuns) <= MaxRouteRuns
    /\ segments' = R.segments /\ routingError' = R.routingError /\ routeRuns' = R.routeRuns

\* a handler that leaves the itinerary as s0
Commit(s0) ==
    \E r \in {Settle(RouteState, Itin, s0)} : SetItin(r.itin) /\ SetRoute(r.route)

\* history of the last step: its kind ("edit" for the plain setters), the
\* arguments of move, whether a response belonged to a superseded run, and the
\* HTTP status of a directions proxy reply (0 when the step had none)
NoOp == [op |-> "init", idx |-> 0, dir |-> 0, stale |-> FALSE, status |-> 0]
Op(name) == [NoOp EXCEPT !.op = name]

----------------------------------------------------------------------------
\* Mutators

addToDay(place) ==
    /\ Len(PlanGet(plan, selectedDay)) < MaxStops
    /\ Commit([Itin EXCEPT !.plan = PlanPut(plan, selectedDay,
                                     Append(PlanGet(plan, selectedDay), Stop(place)))])
    /\ lastOp' = Op("edit")
    /\ UNCHANGED <<searchVars, shareUrl, alerted, zone>>

AddToDay == \E k \in 1..Len(results) : addToDay(results[k])

removeStop(idx) ==
    /\ Commit([Itin EXCEPT !.plan = PlanPut(plan, selectedDay,
                                     RemoveAt(PlanGet(plan, selectedDay), idx))])
    /\ lastOp' = Op("edit")
    /\ UNCHANGED <<searchVars, shareUrl, alerted, zone>>

RemoveStop == \E idx \in 1..Len(PlanGet(plan, selectedDay)) : removeStop(idx)

\* faulty variant: the neighbour is overwritten, not exchanged
SwapOverwrites(arr, i, j) == [arr EXCEPT ![j] = arr[i]]
\* [arr[idx], arr[j]] = [arr[j], arr[idx]]
Swap(arr, i, j) == [arr EXCEPT ![i] = arr[j], ![j] = arr[i]]
\* the plan after move(idx, dir): the plan itself when it returns early
moved(p, day, idx, dir) ==
    LET arr == PlanGet(p, day)
        j == idx + dir
    IN IF j < 1 \/ j > Len(arr) THEN p
       ELSE PlanPut(p, day, Swap(arr, idx, j))

move(idx, dir) ==
    /\ Commit([Itin EXCEPT !.plan = moved(plan, selectedDay, idx, dir)])
    /\ lastOp' = [Op("move") EXCEPT !.idx = idx, !.dir = dir]
    /\ UNCHANGED <<searchVars, shareUrl, alerted, zone>>

Move == \E idx \in 1..Len(PlanGet(plan, selectedDay)), dir \in {-1, 1} : move(idx, dir)

SetHotel ==
    \E k \in 1..Len(results) :
        /\ Commit([Itin EXCEPT !.hotel = results[k]])
        /\ lastOp' = Op("edit")
        /\ UNCHANGED <<searchVars, shareUrl, alerted, zone>>

ClearHotel ==
    /\ hotel # NoHotel
    /\ Commit([Itin EXCEPT !.hotel = NoHotel])
    /\ lastOp' = Op("edit")
    /\ UNCHANGED <<searchVars, shareUrl, alerted, zone>>

\* the two anchor checkboxes are rendered only while a hotel is set
SetUseHotelStart ==
    /\ hotel # NoHotel
    /\ Commit([Itin EXCEPT !.useHotelStart = ~useHotelStart])
    /\ lastOp' = Op("edit")
    /\ UNCHANGED <<searchVars, shareUrl, alerted, zone>>

SetUseHotelEnd ==
    /\ hotel # NoHotel
    /\ Commit([Itin EXCEPT !.useHotelEnd = ~useHotelEnd])
    /\ lastOp' = Op("edit")
    /\ UNCHANGED <<searchVars, shareUrl, alerted, zone>>

\* the day select offers the days of the range
SetSelectedDay ==
    \E k \in 1..Len(days(Itin)) :
        /\ days(Itin)[k] # selectedDay
        /\ Commit([Itin EXCEPT !.selectedDay = days(Itin)[k]])
        /\ lastOp' = Op("edit")
        /\ UNCHANGED <<searchVars, shareUrl, alerted, zone>>

SetRouteMode ==
    \E m \in ModesTried :
        /\ m # routeMode
        /\ Commit([Itin EXCEPT !.routeMode = m])
        /\ lastOp' = Op("edit")
        /\ UNCHANGED <<searchVars, shareUrl, alerted, zone>>

SetStartDate ==
    \E d \in 1..MaxDate :
        /\ d # startDate
        /\ Commit([Itin EXCEPT !.startDate = d])
        /\ lastOp' = Op("edit")
        /\ UNCHANGED <<searchVars, shareUrl, alerted, zone>>

SetEndDate ==
    \E d \in 1..MaxDate :
        /\ d # endDate
        /\ Commit([Itin EXCEPT !.endDate = d])
        /\ lastOp' = Op("edit")
        /\ UNCHANGED <<searchVars, shareUrl, alerted, zone>>

----------------------------------------------------------------------------
\* A route leg's fetch settles (fetchRoute resolves or throws) in run k

routeResponse(k, ok, status) ==
    LET run == [routeRuns[k] EXCEPT !.outcomes = Append(@, ok),
                                    !.raised = @ \/ (~ok /\ routingError = "")]
        next == IF ok THEN AfterSuccess(run) ELSE AfterFailure(run)
    IN /\ routingError' = IF ok THEN routingError ELSE RoutingDegraded
       /\ IF ok /\ ReturnsAfterAwait(run)
          THEN /\ routeRuns' = RemoveAt(routeRuns, k)
               /\ UNCHANGED segments
               /\ lastOp' = [Op("routeReturned") EXCEPT !.stale = run.cancelled, !.status = status]
          ELSE IF LoopDone(next)
          THEN /\ routeRuns' = RemoveAt(routeRuns, k)
               /\ segments' = IF MayStore(next) THEN next.segs ELSE segments
               /\ lastOp' = [Op("routeDone") EXCEPT !.stale = run.cancelled, !.status = status]
          ELSE /\ routeRuns' = ReplaceAt(routeRuns, k, next)
               /\ UNCHANGED segments
               /\ lastOp' = [Op("routeLeg") EXCEPT !.stale = run.cancelled, !.status = status]
       /\ UNCHANGED <<itinVars, searchVars, shareUrl, stored, alerted, zone>>

\* a leg's fetch settled with no directions proxy involved
RouteResponse(k, ok) == routeResponse(k, ok, 0)

RouteSucceeds == \E k \in 1..Len(routeRuns) : RouteResponse(k, TRUE)
RouteFails    == \E k \in 1..Len(routeRuns) : RouteResponse(k, FALSE)

----------------------------------------------------------------------------
\* The directions proxy (api/directions.js) and fetchRoute in transit mode

\* what the proxy finds when it runs: whether GOOGLE_MAPS_API_KEY is set, and
\* how the Directions API answers
Providers == {"route", "routeNoPolyline", "noLegs", "notOK", "throws"}
ProxyEnvs == [key : BOOLEAN, provider : Providers]

\* handler(req, res): the status and the overview_polyline of the reply.  An
\* empty sequence stands for a missing query parameter.
handler(req, env) ==
    IF ~env.key THEN [status |-> 500, overview_polyline |-> "undefined"]
    ELSE IF Len(req.origin) = 0 \/ Len(req.destination) = 0
    THEN [status |-> 400, overview_polyline |-> "undefined"]
    ELSE IF env.provider = "throws" THEN [status |-> 500, overview_polyline |-> "undefined"]
    ELSE IF env.provider \in {"notOK", "noLegs"} THEN [status |-> 502, overview_polyline |-> "undefined"]
    ELSE [status |-> 200,
          overview_polyline |-> IF env.provider = "route" THEN "points" ELSE "null"]

\* faulty variant: the body of a success reply is not looked at
TransitLegOkAnyBody(resp) == resp.status >= 200 /\ resp.status <= 299
\* fetchRoute does not throw: r.ok and data.overview_polyline is truthy
TransitLegOk(resp) ==
    /\ resp.status >= 200 /\ resp.status <= 299
    /\ resp.overview_polyline \notin {"undefined", "null"}

\* the request fetchRoute sends for the leg the run k is waiting for
TransitRequest(run) == [origin |-> run.coords[run.i], destination |-> run.coords[run.i + 1]]

\* the proxy answered the leg run k is waiting for
transitResponse(k, env) ==
    LET run  == routeRuns[k]
        resp == handler(TransitRequest(run), env)
    IN /\ run.mode = "transit"
       /\ routeResponse(k, TransitLegOk(resp), resp.status)

TransitAnswers == \E k \in 1..Len(routeRuns), env \in ProxyEnvs : transitResponse(k, env)

----------------------------------------------------------------------------
\* Search places effect

\* query.trim(): leading and trailing blanks removed
RECURSIVE TrimLeft(_)
TrimLeft(q) == IF Len(q) > 0 /\ Head(q) = " " THEN TrimLeft(Tail(q)) ELSE q
RECURSIVE TrimRight(_)
TrimRight(q) == IF Len(q) > 0 /\ q[Len(q)] = " " THEN TrimRight(SubSeq(q, 1, Len(q) - 1)) ELSE q
Trim(q) == TrimRight(TrimLeft(q))

MinQueryLen == 3

\* texts the user types, and candidate lists the geocoder answers with
Queries == { << >>, <<"a", "b">>, <<" ", "a", "b", " ">>, <<"a", "b", "c">>, <<"a", "b", "c", "d">> }
Answers == { << >>, <<PlaceA, PlaceB>>, <<PlaceB, PlaceC>> }

SearchState == [results |-> results, loading |-> loading, error |-> error, searchRuns |-> searchRuns]

\* the effect's cleanup: return ()=>{ active=false }
Deactivate(runs) == [k \in 1..Len(runs) |-> [runs[k] EXCEPT !.active = FALSE]]

\* run() up to its first await, after the cleanup of the previous run
SearchEffectRun(S, q) ==
    IF Len(Trim(q)) < MinQueryLen
    THEN [S EXCEPT !.error = "", !.results = << >>, !.searchRuns = Deactivate(@)]
    ELSE [S EXCEPT !.error = "", !.loading = TRUE,
                   !.searchRuns = Append(Deactivate(@), [q |-> q, active |-> TRUE])]

SetSearch(S) ==
    /\ Len(S.searchRuns) <= MaxSearchRuns
    /\ results' = S.results /\ loading' = S.loading /\ error' = S.error
    /\ searchRuns' = S.searchRuns

SetQuery ==
    \E q \in Queries :
        /\ q # query
        /\ query' = q
        /\ SetSearch(SearchEffectRun(SearchState, q))
        /\ lastOp' = Op("setQuery")
        /\ UNCHANGED <<itinVars, routeVars, shareUrl, stored, alerted, zone>>

\* if(!active) return;  after the response was read
DropsResponse(run) == ~run.active
\* the catch block: does it set the error for this run?
CatchSetsError(run) == TRUE

\* the response of run k arrived and parsed as the candidate list `places`
searchResolved(k, places) ==
    LET run == searchRuns[k]
    IN /\ results' = IF DropsResponse(run) THEN results ELSE places
       /\ lastOp' = [Op("searchResolved") EXCEPT !.stale = ~run.active]
       /\ loading' = FALSE                    \* finally
       /\ searchRuns' = RemoveAt(searchRuns, k)
       /\ UNCHANGED <<query, error>>
       /\ UNCHANGED <<itinVars, routeVars, shareUrl, stored, alerted, zone>>

\* the fetch of run k rejected, or its body was not JSON
searchRejected(k) ==
    LET run == searchRuns[k]
    IN /\ error' = IF CatchSetsError(run) THEN SearchFailed ELSE error
       /\ lastOp' = [Op("searchRejected") EXCEPT !.stale = ~run.active]
       /\ loading' = FALSE                    \* finally
       /\ searchRuns' = RemoveAt(searchRuns, k)
       /\ UNCHANGED <<query, results>>
       /\ UNCHANGED <<itinVars, routeVars, shareUrl, stored, alerted, zone>>

SearchSucceeds == \E k \in 1..Len(searchRuns), places \in Answers : searchResolved(k, places)
SearchFails    == \E k \in 1..Len(searchRuns) : searchRejected(k)

----------------------------------------------------------------------------
\* Share link and file import

\* the defaults of the useState initialisers
DefaultItin ==
    [tripName |-> DefaultTripName, startDate |-> DefaultStart, endDate |-> DefaultEnd,
     selectedDay |-> DefaultStart, plan |-> EmptyPlan, routeMode |-> "foot", hotel |-> NoHotel,
     useHotelStart |-> TRUE, useHotelEnd |-> TRUE]

\* The text of a ?data= parameter or of a file: `enc` tells whether every
\* decoding layer accepts it, `doc` is the JSON value it then parses to.
NoParam == [enc |-> "absent", doc |-> NullDoc]
Encoded(doc) == [enc |-> "ok", doc |-> doc]
\* texts that one of decodeURIComponent, atob, the UTF-8 step or JSON.parse rejects
BadTexts == { [enc |-> e, doc |-> NullDoc] : e \in {"badPercent", "badBase64", "badUtf8", "badJson"} }

\* encodeURIComponent(btoa(unescape(encodeURIComponent(JSON.stringify(obj)))))
encodeForUrl(s) == Encoded(ToJSON(s))
\* try { ... JSON.parse(json) } catch { return null }
decodeFromUrlParam(text) == IF text.enc = "ok" THEN text.doc ELSE NullDoc

\* the state setters of the share import, applied to the mounted state s
importFromParam(s, incoming) ==
    [tripName      |-> IF Given(incoming, "tripName") THEN incoming.tripName ELSE s.tripName,
     startDate     |-> IF Given(incoming, "startDate") THEN incoming.startDate ELSE s.startDate,
     endDate       |-> IF Given(incoming, "endDate") THEN incoming.endDate ELSE s.endDate,
     plan          |-> IF Given(incoming, "plan") THEN incoming.plan ELSE EmptyPlan,
     selectedDay   |-> IF Given(incoming, "selectedDay") THEN incoming.selectedDay ELSE s.selectedDay,
     routeMode     |-> IF Given(incoming, "routeMode") THEN incoming.routeMode ELSE s.routeMode,
     useHotelStart |-> IF Given(incoming, "useHotelStart") THEN incoming.useHotelStart ELSE s.useHotelStart,
     useHotelEnd   |-> IF Given(incoming, "useHotelEnd") THEN incoming.useHotelEnd ELSE s.useHotelEnd,
     hotel         |-> IF Given(incoming, "hotel") THEN incoming.hotel ELSE s.hotel]

\* the state setters of reader.onload, applied to the state s in memory
importFromFile(s, data) ==
    [tripName      |-> IF Given(data, "tripName") THEN data.tripName ELSE s.tripName,
     startDate     |-> IF Given(data, "startDate") THEN data.startDate ELSE s.startDate,
     endDate       |-> IF Given(data, "endDate") THEN data.endDate ELSE s.endDate,
     plan          |-> IF Given(data, "plan") THEN data.plan ELSE EmptyPlan,
     selectedDay   |-> IF Given(data, "selectedDay") THEN data.selectedDay ELSE s.selectedDay,
     routeMode     |-> IF Given(data, "routeMode") THEN data.routeMode ELSE s.routeMode,
     useHotelStart |-> IF Given(data, "useHotelStart") THEN data.useHotelStart ELSE s.useHotelStart,
     useHotelEnd   |-> IF Given(data, "useHotelEnd") THEN data.useHotelEnd ELSE s.useHotelEnd,
     hotel         |-> IF Given(data, "hotel") THEN data.hotel ELSE s.hotel]

\* JSON.parse throws on a bad text; data.tripName throws when data is null
importThrows(text) == text.enc # "ok" \/ text.doc.type = "null"

importJSON(text) ==
    /\ IF importThrows(text)
       THEN /\ alerted' = TRUE                  \* catch{ alert("Invalid JSON") }
            /\ UNCHANGED <<itinVars, routeVars, stored>>
       ELSE /\ alerted' = FALSE
            /\ Commit(importFromFile(Itin, text.doc))
    /\ lastOp' = Op("importJSON")
    /\ UNCHANGED <<searchVars, shareUrl, zone>>

openShare ==
    /\ shareUrl' = encodeForUrl(Itin)
    /\ lastOp' = Op("openShare")
    /\ UNCHANGED <<itinVars, searchVars, routeVars, stored, alerted, zone>>

\* useState initialisers: the itinerary the component mounts with, read from
\* the localStorage record `initial`
mounted(initial) ==
    LET st == IF Given(initial, "startDate") THEN initial.startDate ELSE DefaultStart
        en == IF Given(initial, "endDate") THEN initial.endDate ELSE DefaultEnd
        ds == daterange(st, en)
    IN [tripName      |-> IF Given(initial, "tripName") THEN initial.tripName ELSE DefaultTripName,
        startDate     |-> st,
        endDate       |-> en,
        selectedDay   |-> IF Given(initial, "selectedDay") /\ Includes(ds, initial.selectedDay)
                          THEN initial.selectedDay
                          ELSE IF Len(ds) > 0 THEN ds[1] ELSE DefaultStart,
        plan          |-> IF Given(initial, "plan") THEN initial.plan ELSE EmptyPlan,
        routeMode     |-> IF Given(initial, "routeMode") THEN initial.routeMode ELSE "foot",
        hotel         |-> IF Given(initial, "hotel") THEN initial.hotel ELSE NoHotel,
        useHotelStart |-> IF Given(initial, "useHotelStart") THEN initial.useHotelStart ELSE TRUE,
        useHotelEnd   |-> IF Given(initial, "useHotelEnd") THEN initial.useHotelEnd ELSE TRUE]

\* if (!encoded) return;  ...  if (!incoming) return;
importsParam(param) == param.enc # "absent" /\ Truthy(decodeFromUrlParam(param))

\* The page is loaded with the ?data= parameter `param`: the component mounts
\* from localStorage and its effects run in source order.  In the first pass
\* the keep-valid effect and then the import effect set state, and the route
\* effect starts on the mounted state; the following passes are Settle's.
openPage(param, kind) ==
    \E s0 \in {mounted(stored)} :
    \E sv \in {KeepSelectedDayValid(s0)} :
    \E s1 \in {IF importsParam(param) THEN importFromParam(sv, decodeFromUrlParam(param)) ELSE sv} :
    \E R0 \in {RouteEffectRun([segments |-> << >>, routingError |-> "", routeRuns |-> << >>], s0)} :
    \E r \in {Settle(R0, s0, s1)} :
       /\ SetItin(r.itin) /\ SetRoute(r.route)
       /\ query' = << >> /\ results' = << >> /\ loading' = FALSE /\ error' = ""
       /\ searchRuns' = << >>
       /\ alerted' = FALSE
       /\ lastOp' = Op(kind)
       /\ UNCHANGED <<shareUrl, zone>>

\* parameters that are not the encoding of an itinerary: texts a decoding layer
\* rejects, and the encodings of null and of numbers
MalformedParams == BadTexts \cup { Encoded(NullDoc), Encoded(NumberDoc(0)), Encoded(NumberDoc(5)) }

OpenPlain     == openPage(NoParam, "openPlain")
OpenShared    == shareUrl # NoParam /\ openPage(shareUrl, "openShared")
OpenMalformed == \E param \in MalformedParams : openPage(param, "openMalformed")

OpenShare == openShare

\* files the user imports: the export of a trip with a hotel, the export of the
\* default trip (its hotel is null), a document with a trip name only, the
\* documents null and 5, and a text that is not JSON
HotelTrip ==
    [tripName |-> "Trip 2", startDate |-> 1, endDate |-> 2, selectedDay |-> 2,
     plan |-> (1 :> <<Stop(PlaceA)>>), routeMode |-> "transit", hotel |-> PlaceB,
     useHotelStart |-> TRUE, useHotelEnd |-> FALSE]
NameOnly == [NullDoc EXCEPT !.type = "object", !.has = {"tripName"}, !.tripName = "Trip 3"]
FileTexts == { Encoded(ToJSON(HotelTrip)), Encoded(ToJSON(DefaultItin)), Encoded(NameOnly),
               Encoded(NullDoc), Encoded(NumberDoc(5)),
               [enc |-> "badJson", doc |-> NullDoc] }

ImportJSON == \E text \in FileTexts : importJSON(text)

----------------------------------------------------------------------------
\* Construction: first load with an empty localStorage and no share parameter

\* the state right after the page loaded from the localStorage record `initial`
\* with no share parameter, no search typed yet
Loaded(initial) ==
    LET s0 == mounted(initial)
        R0 == RouteEffectRun([segments |-> << >>, routingError |-> "", routeRuns |-> << >>], s0)
        r  == Settle(R0, s0, KeepSelectedDayValid(s0))
    IN /\ tripName = r.itin.tripName /\ startDate = r.itin.startDate /\ endDate = r.itin.endDate
       /\ selectedDay = r.itin.selectedDay /\ plan = r.itin.plan /\ routeMode = r.itin.routeMode
       /\ hotel = r.itin.hotel /\ useHotelStart = r.itin.useHotelStart
       /\ useHotelEnd = r.itin.useHotelEnd
       /\ stored = ToJSON(r.itin)
       /\ segments = r.route.segments /\ routingError = r.route.routingError
       /\ routeRuns = r.route.routeRuns
       /\ shareUrl = NoParam /\ alerted = FALSE
       /\ lastOp = NoOp


SearchIdle == query = << >> /\ results = << >> /\ loading = FALSE /\ error = "" /\ searchRuns = << >>
\* the search box after the query "abc" was answered with `places`
SearchAnswered(places) ==
    /\ query = <<"a", "b", "c">> /\ results = places
    /\ loading = FALSE /\ error = "" /\ searchRuns = << >>

Init == zone = ZoneUTC /\ Loaded(NullDoc) /\ SearchIdle

----------------------------------------------------------------------------
\* Specifications.  Each one is the program on a part of its inputs.

\* Route recomputation over several legs: a hotel with the start anchor only,
\* a window of one day.
InitLegs ==
    /\ zone = ZoneUTC
    /\ Loaded(ToJSON([DefaultItin EXCEPT !.endDate = DefaultStart, !.hotel = PlaceB,
                                         !.useHotelEnd = FALSE]))
    /\ SearchAnswered(<<PlaceA, PlaceB>>)
NextLegs ==
    \/ AddToDay \/ RemoveStop \/ Move \/ SetRouteMode
    \/ RouteSucceeds \/ RouteFails
SpecLegs == InitLegs /\ [][NextLegs]_vars

\* Editing two days, no hotel.
InitRoute == zone = ZoneUTC /\ Loaded(NullDoc) /\ SearchAnswered(<<PlaceA, PlaceB>>)
NextRoute ==
    \/ AddToDay \/ RemoveStop \/ Move \/ SetSelectedDay \/ SetRouteMode
    \/ RouteSucceeds \/ RouteFails
SpecRoute == InitRoute /\ [][NextRoute]_vars

\* Stops, hotel, anchors and travel mode on one day, one place to pick.
InitStore ==
    /\ zone = ZoneUTC
    /\ Loaded(ToJSON([DefaultItin EXCEPT !.endDate = DefaultStart]))
    /\ SearchAnswered(<<PlaceA>>)
NextStore ==
    \/ AddToDay \/ RemoveStop \/ Move
    \/ SetHotel \/ ClearHotel \/ SetUseHotelStart \/ SetUseHotelEnd
    \/ SetRouteMode
    \/ RouteSucceeds \/ RouteFails
SpecStore == InitStore /\ [][NextStore]_vars

\* Hotel and anchors over stored plans of two days.
SamplePlans == { EmptyPlan,
                 (1 :> <<Stop(PlaceA), Stop(PlaceB)>>),
                 (1 :> <<Stop(PlaceA)>>) @@ (2 :> <<Stop(PlaceB)>>) }
InitAnchors ==
    /\ zone = ZoneUTC
    /\ \E p \in SamplePlans : Loaded(ToJSON([DefaultItin EXCEPT !.plan = p]))
    /\ SearchAnswered(<<PlaceA, PlaceB>>)
NextAnchors ==
    \/ SetHotel \/ ClearHotel \/ SetUseHotelStart \/ SetUseHotelEnd
    \/ SetSelectedDay
    \/ RouteSucceeds \/ RouteFails
SpecAnchors == InitAnchors /\ [][NextAnchors]_vars

\* Transit legs answered by the directions proxy; one day, hotel as start.
NextTransit ==
    \/ AddToDay \/ RemoveStop \/ SetRouteMode
    \/ TransitAnswers \/ RouteSucceeds \/ RouteFails
SpecTransit == InitLegs /\ [][NextTransit]_vars

\* Trip window, file import and share link.
NextTrip ==
    \/ SetStartDate \/ SetEndDate \/ SetSelectedDay
    \/ ImportJSON \/ OpenShare
    \/ OpenPlain \/ OpenShared \/ OpenMalformed
    \/ RouteSucceeds \/ RouteFails
SpecTrip == Init /\ [][NextTrip]_vars

\* The trip window in each time zone, with the share link.
InitDates == zone \in Zones /\ Loaded(NullDoc) /\ SearchIdle
NextDates ==
    \/ SetStartDate \/ SetEndDate \/ SetSelectedDay
    \/ OpenShare \/ OpenShared
SpecDates == InitDates /\ [][NextDates]_vars

\* The search box.
NextSearch == SetQuery \/ SearchSucceeds \/ SearchFails
SpecSearch == Init /\ [][NextSearch]_vars

----------------------------------------------------------------------------
\* Properties

Max(a, b) == IF a >= b THEN a ELSE b
RouteStep(op) == op.op \in {"routeLeg", "routeDone", "routeReturned"}
\* a recomputation that has not been superseded is in flight
InFlight == \E k \in 1..Len(routeRuns) : ~routeRuns[k].cancelled

\* every entry of segs comes from the travel mode `mode` and from the
\* consecutive pairs of the coordinate sequence cs, in order
FromInputs(segs, mode, cs) ==
    /\ Len(segs) = Max(Len(cs) - 1, 0)
    /\ \A i \in 1..Len(segs) :
        /\ segs[i].from = cs[i] /\ segs[i].to = cs[i + 1]
        /\ segs[i].kind = "routed" => segs[i].mode = mode

\* C1: route recomputation is last-request-wins.  A response that belongs to a
\* superseded recomputation never changes the stored segment list, and every
\* list that is stored was computed from one travel mode and one coordinate
\* sequence, which are the current ones at the moment of the write.
C1_LastRequestWins ==
    [][ /\ (RouteStep(lastOp') /\ lastOp'.stale) => segments' = segments
        /\ segments' # segments => FromInputs(segments', routeMode', coords(Itin')) ]_vars

\* a superseded recomputation ran to the end of its loop while a list computed
\* for other inputs was stored
C1_Witness ==
    /\ lastOp.op = "routeDone" /\ lastOp.stale
    /\ Len(segments) > 0

\* the segment list of a recomputation over cs whose legs settled as outcomes
ExpectedSegs(mode, cs, outcomes) ==
    [i \in 1..(Len(cs) - 1) |->
        IF outcomes[i] THEN RoutedSeg(mode, cs[i], cs[i + 1]) ELSE FallbackSeg(cs[i], cs[i + 1])]

\* C2: a recomputation that is not superseded runs over the current effective
\* stop sequence; whatever way each leg's fetch settles, the next leg is
\* requested, and after the last leg the stored list has one entry per
\* consecutive pair, in input order, a fallback entry exactly for the failed
\* legs.  With fewer than two stops the stored list is empty.
C2_OneEntryPerLeg ==
    [][ /\ \A k \in 1..Len(routeRuns) :
            ~routeRuns[k].cancelled =>
                /\ routeRuns[k].coords = coords(Itin)
                /\ routeRuns[k].mode = routeMode
        /\ \A k \in 1..Len(routeRuns), ok \in BOOLEAN :
            LET run == routeRuns[k]
            IN (RouteResponse(k, ok) /\ ~run.cancelled) =>
                IF run.i = Len(run.coords) - 1
                THEN /\ segments' = ExpectedSegs(run.mode, run.coords, Append(run.outcomes, ok))
                     /\ Len(segments') = Max(Len(coords(Itin)) - 1, 0)
                ELSE /\ Len(routeRuns') = Len(routeRuns)
                     /\ routeRuns'[k].i = run.i + 1
                     /\ routeRuns'[k].outcomes = Append(run.outcomes, ok)
        /\ (RouteDeps(Itin') # RouteDeps(Itin) /\ Len(coords(Itin')) < 2) => segments' = << >>
      ]_vars

\* a recomputation over three stops finished: its first leg failed, its second
\* leg was still fetched
C2_Witness ==
    /\ lastOp.op = "routeDone" /\ ~lastOp.stale
    /\ Len(segments) = 2
    /\ segments[1].kind = "fallback" /\ segments[2].kind = "routed"

\* C3 (as claimed): place search is last-query-wins.  The outcome of a search
\* that a newer query has superseded, success or failure, changes neither the
\* result list nor the search error.
C3_LastQueryWins ==
    [][ (lastOp'.op \in {"searchResolved", "searchRejected"} /\ lastOp'.stale)
            => (results' = results /\ error' = error) ]_vars

PlacesOf(stops) == [i \in 1..Len(stops) |-> stops[i].place]

\* C8: the effective stop sequence is the hotel (if one is set and the start
\* anchor is on), then the active day's stops in their stored order, then the
\* hotel (if one is set and the end anchor is on); with no hotel it is the
\* day's stops whatever the anchors are.
C8_EffectiveStops ==
    LET eff  == effectiveStops(Itin)
        ds   == PlanGet(plan, selectedDay)
        pre  == IF hotel # NoHotel /\ useHotelStart THEN <<hotel>> ELSE << >>
        post == IF hotel # NoHotel /\ useHotelEnd THEN <<hotel>> ELSE << >>
    IN /\ PlacesOf(eff) = pre \o PlacesOf(ds) \o post
       /\ SubSeq(eff, Len(pre) + 1, Len(pre) + Len(ds)) = ds
       /\ hotel = NoHotel => eff = ds

\* hotel set, both anchors on, a day with the stops [A, B]: [hotel, A, B, hotel]
C8_Witness ==
    /\ hotel = PlaceB /\ useHotelStart /\ useHotelEnd
    /\ PlacesOf(PlanGet(plan, selectedDay)) = <<PlaceA, PlaceB>>
    /\ PlacesOf(effectiveStops(Itin)) = <<PlaceB, PlaceA, PlaceB, PlaceB>>
    /\ lastOp.op = "edit"

ItinOf(doc) ==
    [tripName |-> doc.tripName, startDate |-> doc.startDate, endDate |-> doc.endDate,
     selectedDay |-> doc.selectedDay, plan |-> doc.plan, routeMode |-> doc.routeMode,
     hotel |-> doc.hotel, useHotelStart |-> doc.useHotelStart, useHotelEnd |-> doc.useHotelEnd]

\* C4 (as claimed): in every reachable state the active day is one of the dates
\* from the start date to the end date.
C4_ActiveDayInWindow == selectedDay >= startDate /\ selectedDay <= endDate

\* C5 (as claimed): opening the share link built from itinerary X leaves the
\* session's itinerary equal to X in every field, whatever it was before.
C5_ShareRoundTrip ==
    [][ lastOp'.op = "openShared" => Itin' = ItinOf(shareUrl.doc) ]_vars

\* C6 (as claimed): loading the page with a share parameter that is not the
\* encoding of an itinerary leaves every itinerary field as it was.
C6_MalformedParamNoImport ==
    [][ lastOp'.op = "openMalformed" => Itin' = Itin ]_vars

\* C7 (as claimed): file import of a JSON document sets the plan to the
\* document's plan, or to the empty plan when it has none; every other field
\* takes the document's value when the document has it and keeps its value
\* otherwise.
C7_ImportFrame ==
    [][ \A text \in FileTexts :
          (importJSON(text) /\ text.enc = "ok" /\ text.doc.type = "object") =>
             /\ plan' = IF "plan" \in text.doc.has THEN text.doc.plan ELSE EmptyPlan
             /\ \A f \in ItinFields \ {"plan"} :
                    Itin'[f] = IF f \in text.doc.has THEN text.doc[f] ELSE Itin[f] ]_vars

\* C11 (as claimed): when the search for the current query fails, the search
\* state then shows the error message together with an empty result list.
C11_FailureShowsEmptyResults ==
    [][ (lastOp'.op = "searchRejected" /\ ~lastOp'.stale)
            => (error' = SearchFailed /\ results' = << >>) ]_vars

\* C12: in transit mode, when the proxy answers the leg of a recomputation
\* that is not superseded with a non-success status or with a success reply
\* that has no polyline, the leg gets the two-point fallback line between its
\* endpoints, with a distance and a duration of that distance divided by 1.25
\* (to the whole second); the recomputation goes on to the next leg or, after
\* the last leg, stores its list, and the failed leg is not requested again.
C12_TransitFailureFallsBack ==
    [][ \A k \in 1..Len(routeRuns), env \in ProxyEnvs :
          LET run  == routeRuns[k]
              resp == handler(TransitRequest(run), env)
              from == run.coords[run.i]
              to   == run.coords[run.i + 1]
              segs == IF run.i = Len(run.coords) - 1 THEN segments' ELSE routeRuns'[k].segs
              leg  == segs[run.i]
          IN (/\ transitResponse(k, env) /\ ~run.cancelled
              /\ (resp.status # 200 \/ resp.overview_polyline = "null")) =>
                /\ Len(segs) = run.i
                /\ SubSeq(segs, 1, run.i - 1) = run.segs
                /\ leg.line = <<from, to>>
                /\ leg.meters = haversine(from[1], from[2], to[1], to[2])
                /\ 5 * leg.seconds <= 4 * leg.meters /\ 4 * leg.meters < 5 * leg.seconds + 5
                /\ IF run.i = Len(run.coords) - 1
                   THEN Len(routeRuns') = Len(routeRuns) - 1
                   ELSE /\ Len(routeRuns') = Len(routeRuns)
                        /\ routeRuns'[k].i = run.i + 1
                        /\ routeRuns'[k].coords = run.coords ]_vars

\* a transit recomputation stored its list after the proxy answered its last
\* leg 502 (no transit route)
C12_Witness ==
    /\ routeMode = "transit"
    /\ lastOp.op = "routeDone" /\ ~lastOp.stale /\ lastOp.status = 502
    /\ Len(segments) = 2
    /\ segments[2].kind = "fallback" /\ Len(segments[2].line) = 2

\* a transit leg answered 200 without a polyline was stored as a fallback
C12_WitnessNoPolyline ==
    /\ routeMode = "transit"
    /\ lastOp.op = "routeDone" /\ ~lastOp.stale /\ lastOp.status = 200
    /\ segments[Len(segments)].kind = "fallback"

\* C13 (as claimed): within one recomputation the routing warning is raised
\* (turned from empty to the warning text) at most once, and when a
\* recomputation that is not superseded ends with a failed leg the warning is
\* up.
C13_WarningOncePerBatch ==
    [][ \A k \in 1..Len(routeRuns) :
          /\ (RouteResponse(k, FALSE) /\ routingError = "") => ~routeRuns[k].raised
          /\ (RouteResponse(k, FALSE) /\ ~routeRuns[k].cancelled) => routingError' = RoutingDegraded
      ]_vars

\* C14 (as claimed): for a start date not after the end date, the derived day
\* sequence is the calendar dates from the start date to the end date, each
\* once, in ascending order.
C14_DaysAreTheWindow ==
    startDate <= endDate =>
        days(Itin) = [i \in 1..(endDate - startDate + 1) |-> startDate + i - 1]

\* C15 (as claimed): the fallback segment of a leg whose two endpoints
\* coincide has distance 0 and duration 0.
C15_ZeroLengthFallback ==
    \A i \in 1..Len(segments) :
        (segments[i].kind = "fallback" /\ segments[i].from = segments[i].to) =>
            (segments[i].meters = 0 /\ segments[i].seconds = 0)

\* C16 (as claimed): a response that belongs to a superseded recomputation
\* never changes the routing warning.
C16_StaleRunKeepsWarning ==
    [][ (RouteStep(lastOp') /\ lastOp'.stale) => routingError' = routingError ]_vars

====
